---- MODULE Spec2Model ----
(***************************************************************************)
(* State-machine model of the stdio JSON-RPC transports and the validation *)
(* harnesses of the ACMG/AMP MCP tooling:                                  *)
(*   validation/mcp-protocol-compliance.py   (MCPProtocolValidator)        *)
(*   examples/ai-agents/custom-clients/python-client.py   (MCPClient)      *)
(*   validation/clinical-accuracy-validation.py (ClinicalAccuracyValidator)*)
(* One behaviour follows one program: prog is chosen in Init. "client" is   *)
(* an MCPClient driven by an arbitrary caller, "workflow" one driven by     *)
(* example_workflow or interactive_session.                                 *)
(***************************************************************************)
EXTENDS Integers, Sequences, FiniteSets, TLC

\* ------------------------------------------------------------------ bounds
\* Deviations of the child in one behaviour: a reply that is not the conformant
\* one or is out of order, a delayed reply, a notification, an exit; the
\* cancellation of the run from outside counts as one.
MaxDeviations == 1
\* Requests attempted on one MCPClient by its caller.
MaxId == 3
\* Children spawned by one MCPClient.
MaxSpawns == 2
\* Calls of MCPClient.disconnect().
MaxDisconnects == 2
\* Length of the list handed to run_validation.
MaxCases == 2

\* ------------------------------------------------------- program constants
METHOD_NOT_FOUND == -32601
INVALID_PARAMS == -32602

VARIABLES
    prog,            \* which program runs: "compliance" | "client" |
                     \* "workflow" | "example_workflow" | "accuracy"
    pc,              \* position of the program's logical task
    process,         \* self.process: 0 is None, n > 0 the n-th spawned child
    childState,      \* "none" | "running" | "exited" | "terminated"
    message_id,      \* self.message_id
    sent,            \* requests written to a child's stdin: [child, id, method]
    idAtSpawn,       \* message_id when the current child was spawned
    unanswered,      \* requests the child has read and will answer in time
    late,            \* requests whose answer the child has delayed
    stdout,          \* lines the child has written and the transport has not read
    call,            \* the send_message in flight: [id, method], or NoCall
    testIdx,         \* index into tests of the check being run
    step,            \* number of the request inside the current check
    results,         \* self.results
    report,          \* the value returned by the run, or NoReport
    excn,            \* exception that left the program's entry point, or "none"
    disconnectCalls, \* number of invocations of disconnect()
    lastRet,         \* <<request id, id and error code of the line returned
                     \* for it>> of the last send_message that returned
    lastOutcome,     \* outcome of the last check procedure that finished
    deviations,      \* deviations of the child so far
    test_cases,      \* the list handed to run_validation
    runs,            \* calls of run_all_validations on the validator so far
    exit_status,     \* the status main() gave to sys.exit, or NotExited
    bound            \* local names of example_workflow that are bound

vars == <<prog, pc, process, childState, message_id, sent, idAtSpawn, unanswered,
          late, stdout, call, testIdx, step, results, report, excn,
          disconnectCalls, lastRet, lastOutcome, deviations, test_cases, runs,
          exit_status, bound>>

\* The child process and its pipes.
childVars == <<childState, unanswered, late, stdout, deviations>>
\* What belongs to the caller of a run: main() and example_workflow.
mainVars == <<test_cases, runs, exit_status, bound>>
\* The harness: position, results, report.
runVars == <<pc, testIdx, step, results, report, excn, lastOutcome>>

\* main() has not called sys.exit (an exit status is never negative).
NotExited == 0 - 1

NoCall == [id |-> 0, method |-> "none"]
NoReport == [kind |-> "none"]

\* ------------------------------------------------------------------ wire
\* One line of the child's stdout. json = FALSE is a line json.loads rejects.
\* id = 0: no "id" member;
\* error = 0: no "error" member; a JSON-RPC code: an object with that code and
\* a message; IncompleteError: an object that lacks "code" or "message";
\* result: "absent" (no member), "null", or the shape of the payload:
\*   "good"  passes the structural validation of the check that asked,
\*   "empty" the listed array is empty,
\*   "bad"   an object without the member the check reads;
\* and for an answer to tools/list also
\*   "no_generate_report" the array lacks the entry of generate_report,
\*   "no_description"     one entry of the array has no description.
IncompleteError == 1

Line(js, i, ver, res, err) ==
    [json |-> js, id |-> i, jsonrpc |-> ver, result |-> res, error |-> err]

ResultLine(i, res) == Line(TRUE, i, "2.0", res, 0)
ErrorLine(i, code) == Line(TRUE, i, "2.0", "absent", code)
Garbage == Line(FALSE, 0, "absent", "absent", 0)
Notification == Line(TRUE, 0, "2.0", "absent", 0)

HasResult(r) == r.result # "absent"
HasError(r) == r.error # 0

\* ----------------------------------------------------------------- checks
\* run_all_validations: the registered checks, in registration order.
tests == <<
    [name |-> "JSON-RPC 2.0 Format Compliance", func |-> "validate_jsonrpc_format"],
    [name |-> "Protocol Version Negotiation", func |-> "validate_protocol_negotiation"],
    [name |-> "Tool Discovery", func |-> "validate_tool_discovery"],
    [name |-> "Tool Invocation", func |-> "validate_tool_invocation"],
    [name |-> "Resource Discovery", func |-> "validate_resource_discovery"],
    [name |-> "Resource Access", func |-> "validate_resource_access"],
    [name |-> "Prompt Support", func |-> "validate_prompt_support"],
    [name |-> "Error Handling", func |-> "validate_error_handling"],
    [name |-> "Logging Support", func |-> "validate_logging_support"] >>

NumTests == Len(tests)

\* Outcome of one step of a check procedure.
Next_(m) == [kind |-> "next", msg |-> m]
Pass == [kind |-> "pass", msg |-> "none"]
Raise(m) == [kind |-> "raise", msg |-> m]

\* Method of the step-th request of a check (the argument of send_message).
RequestMethod(func, s) ==
    CASE func = "validate_jsonrpc_format" ->
            IF s = 1 THEN "initialize" ELSE "invalid_method"
      [] func = "validate_protocol_negotiation" -> "initialize"
      [] func = "validate_tool_discovery" -> "tools/list"
      [] func = "validate_tool_invocation" ->
            IF s = 1 THEN "tools/call validate_hgvs"
                     ELSE "tools/call nonexistent_tool"
      [] func = "validate_resource_discovery" -> "resources/list"
      [] func = "validate_resource_access" -> "resources/read"
      [] func = "validate_prompt_support" ->
            IF s = 1 THEN "prompts/list" ELSE "prompts/get"
      [] func = "validate_error_handling" ->
            IF s = 1 THEN "invalid/method" ELSE "tools/call no arguments"
      [] OTHER -> "logging/setLevel"

\* response.get("result", {}) followed by a membership test or a subscript:
\* a null result makes the test raise TypeError.
validate_jsonrpc_format(s, response, mid) ==
    IF s = 1 THEN
        IF response.jsonrpc = "absent" THEN Raise("Response missing 'jsonrpc' field")
        ELSE IF response.jsonrpc # "2.0" THEN Raise("Invalid jsonrpc version")
        ELSE IF response.id = 0 THEN Raise("Response missing 'id' field")
        ELSE IF response.id # mid THEN Raise("Response ID mismatch")
        ELSE IF ~HasResult(response) /\ ~HasError(response)
             THEN Raise("Response missing both 'result' and 'error' fields")
        ELSE Next_("invalid_method")
    ELSE Pass

validate_protocol_negotiation(s, response) ==
    IF HasError(response) THEN Raise("Initialize failed")
    ELSE IF response.result = "null" THEN Raise("TypeError")
    ELSE IF response.result \in {"absent", "bad", "empty"}
         THEN Raise("Server response missing protocolVersion")
    ELSE Pass

\* validate_tool_discovery: the tool names the server must offer, in the
\* order in which they are looked up.
expected_tools == <<"classify_variant", "validate_hgvs", "query_evidence",
                    "generate_report">>

\* result["tools"] of a result of the given shape: the entries, each with
\* its name and whether it has a description.
ToolEntries(res) ==
    LET entry(n, d) == [name |-> n, description |-> d]
    IN  CASE res = "good" ->
                <<entry("classify_variant", TRUE), entry("validate_hgvs", TRUE),
                  entry("query_evidence", TRUE), entry("generate_report", TRUE)>>
          [] res = "no_generate_report" ->
                <<entry("classify_variant", TRUE), entry("validate_hgvs", TRUE),
                  entry("query_evidence", TRUE)>>
          [] res = "no_description" ->
                <<entry("classify_variant", TRUE), entry("validate_hgvs", TRUE),
                  entry("query_evidence", FALSE), entry("generate_report", TRUE)>>
          [] OTHER -> <<>>

\* f"Missing expected tool: {expected_tool}"
MissingToolMessage(expected_tool) ==
    CASE expected_tool = "classify_variant" -> "Missing expected tool: classify_variant"
      [] expected_tool = "validate_hgvs" -> "Missing expected tool: validate_hgvs"
      [] expected_tool = "query_evidence" -> "Missing expected tool: query_evidence"
      [] OTHER -> "Missing expected tool: generate_report"

\* validate_tool_discovery as it would be if it did not look for the expected
\* tools.
validate_tool_discovery_lenient(s, response) ==
    IF HasError(response) THEN Raise("tools/list failed")
    ELSE IF response.result = "null" THEN Raise("TypeError")
    ELSE IF response.result \in {"absent", "bad"}
         THEN Raise("tools/list response missing 'tools' field")
    ELSE
        LET tools == ToolEntries(response.result)
        IN  IF \E i \in 1..Len(tools) : ~tools[i].description
            THEN Raise("Tool missing required field 'description'")
            ELSE Pass

validate_tool_discovery(s, response) ==
    IF HasError(response) THEN Raise("tools/list failed")
    ELSE IF response.result = "null" THEN Raise("TypeError")
    ELSE IF response.result \in {"absent", "bad"}
         THEN Raise("tools/list response missing 'tools' field")
    ELSE
        LET tools == ToolEntries(response.result)
            found_tools == {tools[i].name : i \in 1..Len(tools)}
            missing == {k \in 1..Len(expected_tools) : expected_tools[k] \notin found_tools}
        IN  IF missing # {}
            THEN Raise(MissingToolMessage(
                     expected_tools[CHOOSE k \in missing : \A j \in missing : k <= j]))
            ELSE IF \E i \in 1..Len(tools) : ~tools[i].description
            THEN Raise("Tool missing required field 'description'")
            ELSE Pass

\* validate_tool_invocation as it would be if it accepted any answer to the
\* call of the tool that does not exist.
validate_tool_invocation_anyAnswer(s, response) ==
    IF s = 1 THEN
        IF HasError(response) THEN Raise("Tool call failed")
        ELSE IF response.result \in {"absent", "null"}
             THEN Raise("Tool call response missing result")
        ELSE IF response.result = "bad" THEN Raise("Tool result must be object")
        ELSE Next_("nonexistent_tool")
    ELSE Pass

\* validate_tool_invocation as it would be if it did not look into the error
\* object.
validate_tool_invocation_noFieldCheck(s, response) ==
    IF s = 1 THEN
        IF HasError(response) THEN Raise("Tool call failed")
        ELSE IF response.result \in {"absent", "null"}
             THEN Raise("Tool call response missing result")
        ELSE IF response.result = "bad" THEN Raise("Tool result must be object")
        ELSE Next_("nonexistent_tool")
    ELSE
        IF ~HasError(response) THEN Raise("Invalid tool call should return error")
        ELSE Pass

validate_tool_invocation(s, response) ==
    IF s = 1 THEN
        IF HasError(response) THEN Raise("Tool call failed")
        ELSE IF response.result \in {"absent", "null"}
             THEN Raise("Tool call response missing result")
        ELSE IF response.result = "bad" THEN Raise("Tool result must be object")
        ELSE Next_("nonexistent_tool")
    ELSE
        IF ~HasError(response) THEN Raise("Invalid tool call should return error")
        ELSE IF response.error = IncompleteError
             THEN Raise("Error response missing required fields")
        ELSE Pass

validate_resource_discovery(s, response) ==
    IF HasError(response) THEN Raise("resources/list failed")
    ELSE IF response.result = "null" THEN Raise("TypeError")
    ELSE IF response.result \in {"absent", "bad"}
         THEN Raise("resources/list response missing 'resources' field")
    ELSE Pass

validate_resource_access(s, response) ==
    IF HasError(response) THEN Raise("Resource read failed")
    ELSE IF response.result \in {"absent", "null"}
         THEN Raise("Resource read response missing result")
    ELSE IF response.result = "bad" THEN Raise("Resource response missing contents")
    ELSE IF response.result = "empty" THEN Raise("Resource contents empty")
    ELSE Pass

validate_prompt_support(s, response) ==
    IF s = 1 THEN
        IF HasError(response) THEN Raise("prompts/list failed")
        ELSE IF response.result = "null" THEN Raise("TypeError")
        ELSE IF response.result \in {"absent", "bad"}
             THEN Raise("prompts/list response missing 'prompts' field")
        ELSE IF response.result = "empty" THEN Pass
        ELSE Next_("prompts/get")
    ELSE
        IF HasError(response) THEN Raise("Prompt get failed")
        ELSE IF response.result \in {"absent", "null"} THEN Raise("TypeError")
        ELSE IF response.result \in {"bad", "empty"}
             THEN Raise("Prompt response missing messages")
        ELSE Pass

\* validate_error_handling as it would be if a code other than the expected
\* one were a failure.
validate_error_handling_strict(s, response) ==
    IF s = 1 THEN
        IF ~HasError(response) THEN Raise("Invalid method should return error")
        ELSE IF response.error # METHOD_NOT_FOUND THEN Raise("Unexpected error code")
        ELSE Next_("tools/call")
    ELSE
        IF ~HasError(response) THEN Raise("Invalid parameters should return error")
        ELSE IF response.error # INVALID_PARAMS THEN Raise("Unexpected error code")
        ELSE Pass

validate_error_handling(s, response) ==
    IF s = 1 THEN
        IF ~HasError(response) THEN Raise("Invalid method should return error")
        ELSE Next_("tools/call")
    ELSE
        IF ~HasError(response) THEN Raise("Invalid parameters should return error")
        ELSE Pass

\* validate_logging_support as it would be if an error answer were a failure.
validate_logging_support_strict(s, response) ==
    IF HasError(response) THEN Raise("logging/setLevel failed") ELSE Pass

\* Everything validate_logging_support does is inside try/except Exception:
\* it returns whatever the answer is.
validate_logging_support(s, response) == Pass

\* A tools/list answer as another check sees it: an object without the
\* member that check reads; for the tool invocation check, which only asks
\* for an object, a result as good as any.
\* A validate_hgvs result saying that the notation is not valid is an object
\* like any other to the checks, none of which reads its members.
ToolsListShapes == {"no_generate_report", "no_description"}
AsReadBy(func, response) ==
    IF response.result = "not_valid" THEN [response EXCEPT !.result = "good"]
    ELSE IF func # "validate_tool_discovery" /\ response.result \in ToolsListShapes
    THEN [response EXCEPT !.result =
              IF func = "validate_tool_invocation" THEN "good" ELSE "bad"]
    ELSE response

\* The check procedure `func`, resumed with the response to its s-th request.
CheckStep(func, s, resp, mid) ==
    LET response == AsReadBy(func, resp)
    IN
    CASE func = "validate_jsonrpc_format" -> validate_jsonrpc_format(s, response, mid)
      [] func = "validate_protocol_negotiation" -> validate_protocol_negotiation(s, response)
      [] func = "validate_tool_discovery" -> validate_tool_discovery(s, response)
      [] func = "validate_tool_invocation" -> validate_tool_invocation(s, response)
      [] func = "validate_resource_discovery" -> validate_resource_discovery(s, response)
      [] func = "validate_resource_access" -> validate_resource_access(s, response)
      [] func = "validate_prompt_support" -> validate_prompt_support(s, response)
      [] func = "validate_error_handling" -> validate_error_handling(s, response)
      [] OTHER -> validate_logging_support(s, response)

\* The check procedure `func`, resumed with the exception e that its s-th
\* send_message raised: two procedures catch it themselves.
\* CheckSendFailed as it would be if validate_logging_support did not catch
\* the exception of its send.
CheckSendFailed_loggingRaises(func, s, e) ==
    IF func = "validate_jsonrpc_format" /\ s = 2 THEN Pass
    ELSE Raise(e)

CheckSendFailed(func, s, e) ==
    IF func = "validate_jsonrpc_format" /\ s = 2 THEN Pass
    ELSE IF func = "validate_logging_support" THEN Pass
    ELSE Raise(e)

\* ------------------------------------------------------------ orchestrator
\* run_test as it would be if the exception's text were not recorded.
run_test_dropMessage(test_name, outcome) ==
    [test_name |-> test_name, passed |-> outcome.kind = "pass",
     message |-> <<"Test passed">>, details |-> "None"]

\* add_result as called by run_test: the record appended for a procedure
\* that returned (outcome.kind = "pass") or raised an Exception.
run_test(test_name, outcome) ==
    IF outcome.kind = "pass"
    THEN [test_name |-> test_name, passed |-> TRUE,
          message |-> <<"Test passed">>, details |-> "None"]
    ELSE [test_name |-> test_name, passed |-> FALSE,
          message |-> <<"Test failed: ", outcome.msg>>, details |-> outcome.msg]

\* The report as it would be if the status looked at the score being
\* positive.
ComplianceReport_lenientStatus(rs) ==
    LET passed_tests == Cardinality({i \in 1..Len(rs) : rs[i].passed})
        failed_tests == Len(rs) - passed_tests
    IN  [kind |-> "ComplianceReport",
         total_tests |-> Len(rs),
         passed_tests |-> passed_tests,
         failed_tests |-> failed_tests,
         compliance_score |->
             IF Len(rs) > 0 THEN <<100 * passed_tests, Len(rs)>> ELSE <<0, 1>>,
         results |-> rs,
         overall_status |-> IF passed_tests > 0 THEN "COMPLIANT" ELSE "NON_COMPLIANT",
         optional_failures |->
             {i \in 1..Len(rs) : ~rs[i].passed /\ rs[i].test_name = "Logging Support"}]

\* The report assembled at the end of run_all_validations.
ComplianceReport(rs) ==
    LET passed_tests == Cardinality({i \in 1..Len(rs) : rs[i].passed})
        failed_tests == Len(rs) - passed_tests
    IN  [kind |-> "ComplianceReport",
         total_tests |-> Len(rs),
         passed_tests |-> passed_tests,
         failed_tests |-> failed_tests,
         compliance_score |->
             IF Len(rs) > 0 THEN <<100 * passed_tests, Len(rs)>> ELSE <<0, 1>>,
         results |-> rs,
         overall_status |-> IF failed_tests = 0 THEN "COMPLIANT" ELSE "NON_COMPLIANT",
         optional_failures |->
             {i \in 1..Len(rs) : ~rs[i].passed /\ rs[i].test_name = "Logging Support"}]

\* ------------------------------------------------------------------ child
\* The replies a server conforming to the protocol gives to a request.
Conformant(req) ==
    CASE req.method \in {"invalid_method", "invalid/method", "tools/call nonexistent_tool"}
            -> {ErrorLine(req.id, METHOD_NOT_FOUND)}
      [] req.method = "tools/call no arguments" -> {ErrorLine(req.id, INVALID_PARAMS)}
      [] req.method = "logging/setLevel"
            -> {ResultLine(req.id, "good"), ErrorLine(req.id, METHOD_NOT_FOUND)}
      [] req.method = "tools/call validate_hgvs"
            -> {ResultLine(req.id, "good"), ResultLine(req.id, "not_valid")}
      [] OTHER -> {ResultLine(req.id, "good")}

\* Every line a child may write in answer to a request.
Replies(req) ==
    {ResultLine(req.id, r) : r \in {"good", "empty", "bad", "null"}}
    \cup {ErrorLine(req.id, c) : c \in {METHOD_NOT_FOUND, INVALID_PARAMS}}
    \cup {Line(TRUE, req.id, "2.0", "absent", 0),
          Line(TRUE, req.id, "2.0", "good", METHOD_NOT_FOUND),
          Line(TRUE, req.id, "1.0", "good", 0),
          Line(TRUE, req.id, "absent", "good", 0),
          Line(TRUE, 0, "2.0", "good", 0),
          Garbage}
    \cup (IF req.method = "tools/list"
          THEN {ResultLine(req.id, r) : r \in ToolsListShapes}
          ELSE {})
    \cup (IF req.method = "tools/call validate_hgvs"
          THEN {ResultLine(req.id, "not_valid")}
          ELSE {})
    \cup (IF req.method = "tools/call nonexistent_tool"
          THEN {ErrorLine(req.id, IncompleteError)}
          ELSE {})

\* A conformant reply, to the oldest of the requests `pending`.
InOrderConformant(req, line, pending) ==
    /\ line \in Conformant(req)
    /\ \A q \in pending : req.id <= q.id

\* The child answers, in time, one of the requests it has read.
ChildReply ==
    /\ childState = "running"
    /\ \E req \in unanswered : \E line \in Replies(req) :
        /\ ~InOrderConformant(req, line, unanswered) => deviations < MaxDeviations
        /\ deviations' = IF InOrderConformant(req, line, unanswered) THEN deviations
                          ELSE deviations + 1
        /\ stdout' = Append(stdout, line)
        /\ unanswered' = unanswered \ {req}
    /\ UNCHANGED <<prog, process, message_id, sent, idAtSpawn, call, lastRet,
                   disconnectCalls, mainVars, runVars, childState, late>>

\* The child holds a request back: no answer within the caller's deadline.
ChildDelay ==
    /\ childState = "running"
    /\ deviations < MaxDeviations
    /\ \E req \in unanswered :
        /\ unanswered' = unanswered \ {req}
        /\ late' = late \cup {req}
    /\ deviations' = deviations + 1
    /\ UNCHANGED <<prog, process, message_id, sent, idAtSpawn, call, lastRet,
                   disconnectCalls, mainVars, runVars, childState, stdout>>

\* The child answers a request it had held back.
ChildLateReply ==
    /\ childState = "running"
    /\ \E req \in late : \E line \in Replies(req) :
        /\ ~InOrderConformant(req, line, late) => deviations < MaxDeviations
        /\ deviations' = IF InOrderConformant(req, line, late) THEN deviations
                          ELSE deviations + 1
        /\ stdout' = Append(stdout, line)
        /\ late' = late \ {req}
    /\ UNCHANGED <<prog, process, message_id, sent, idAtSpawn, call, lastRet,
                   disconnectCalls, mainVars, runVars, childState, unanswered>>

\* The child writes a line that answers no request (a notification).
ChildNotify ==
    /\ childState = "running"
    /\ deviations < MaxDeviations
    /\ deviations' = deviations + 1
    /\ stdout' = Append(stdout, Notification)
    /\ UNCHANGED <<prog, process, message_id, sent, idAtSpawn, call, lastRet,
                   disconnectCalls, mainVars, runVars, childState, unanswered, late>>

\* The child exits on its own (a crash, or its stdin was closed).
ChildExit ==
    /\ childState = "running"
    /\ deviations < MaxDeviations
    /\ deviations' = deviations + 1
    /\ childState' = "exited"
    /\ unanswered' = {}
    /\ late' = {}
    /\ UNCHANGED <<prog, process, message_id, sent, idAtSpawn, call, lastRet,
                   disconnectCalls, mainVars, runVars, stdout>>

\* ------------------------------------------- MCPProtocolValidator: the run
\* NextId as it would be if the counter stopped at its second value.
NextId_stuck(mid) == IF mid >= 2 THEN mid ELSE mid + 1

\* self.message_id += 1: the id of the next request.
NextId(mid) == mid + 1

\* The entry of the log of requests handed to the stdin of child c.
Sent(c, req) == [child |-> c, id |-> req.id, method |-> req.method]

\* FinishCheck as it would be if a failing check put its result first.
FinishCheck_prepend(outcome) ==
    /\ results' = IF outcome.kind = "raise"
                  THEN <<run_test(tests[testIdx].name, outcome)>> \o results
                  ELSE Append(results, run_test(tests[testIdx].name, outcome))
    /\ lastOutcome' = outcome
    /\ testIdx' = testIdx + 1
    /\ step' = 1
    /\ pc' = IF testIdx = NumTests THEN "finally" ELSE "running"

\* FinishCheck as it would be if a failing check ended the sequence.
FinishCheck_abort(outcome) ==
    /\ results' = Append(results, run_test(tests[testIdx].name, outcome))
    /\ lastOutcome' = outcome
    /\ testIdx' = testIdx + 1
    /\ step' = 1
    /\ pc' = IF testIdx = NumTests \/ outcome.kind = "raise" THEN "finally"
             ELSE "running"

\* run_test after the procedure of the current check has finished.
FinishCheck(outcome) ==
    /\ results' = Append(results, run_test(tests[testIdx].name, outcome))
    /\ lastOutcome' = outcome
    /\ testIdx' = testIdx + 1
    /\ step' = 1
    /\ pc' = IF testIdx = NumTests THEN "finally" ELSE "running"

\* The current check procedure goes on after its send_message ended.
Resume(outcome) ==
    /\ call' = NoCall
    /\ IF outcome.kind = "next"
       THEN /\ step' = step + 1
            /\ UNCHANGED <<results, lastOutcome, testIdx, pc>>
       ELSE FinishCheck(outcome)

\* Connect as it would be if a failed spawn were ignored.
Connect_ignoreFailure ==
    /\ prog = "compliance" /\ pc = "idle"
    /\ \/ /\ process' = process + 1
          /\ childState' = "running"
          /\ idAtSpawn' = message_id
          /\ stdout' = <<>>
          /\ pc' = "running"
          /\ UNCHANGED excn
       \/ /\ pc' = "reporting"
          /\ UNCHANGED <<process, childState, idAtSpawn, stdout, excn>>
    /\ UNCHANGED <<prog, message_id, sent, unanswered, late, call, testIdx,
                   step, results, report, disconnectCalls, lastRet, lastOutcome,
                   deviations, mainVars>>

\* run_all_validations up to the end of connect().
Connect ==
    /\ prog = "compliance" /\ pc = "idle"
    /\ \/ /\ process' = process + 1
          /\ childState' = "running"
          /\ idAtSpawn' = message_id
          /\ stdout' = <<>>
          /\ pc' = "running"
          /\ UNCHANGED excn
       \/ /\ excn' = "FileNotFoundError"
          /\ pc' = "finally"
          /\ UNCHANGED <<process, childState, idAtSpawn, stdout>>
    /\ UNCHANGED <<prog, message_id, sent, unanswered, late, call, testIdx,
                   step, results, report, disconnectCalls, lastRet, lastOutcome,
                   deviations, mainVars>>

\* send_message up to the await of readline: the id is taken, the request is
\* written and drained. Writing to a child that has exited raises
\* ConnectionResetError once the loop has seen the pipe close.
Send ==
    /\ prog = "compliance" /\ pc = "running" /\ call = NoCall
    /\ LET func == tests[testIdx].func
           req == [id |-> NextId(message_id), method |-> RequestMethod(func, step)]
       IN  /\ message_id' = req.id
           /\ sent' = Append(sent, Sent(process, req))
           /\ \/ /\ childState = "running"
                 /\ unanswered' = unanswered \cup {req}
                 /\ call' = req
                 /\ UNCHANGED <<testIdx, step, results, lastOutcome, pc>>
              \/ /\ childState = "exited"
                 /\ call' = req
                 /\ UNCHANGED <<unanswered, testIdx, step, results, lastOutcome, pc>>
              \/ /\ childState = "exited"
                 /\ Resume(CheckSendFailed(func, step, "Connection lost"))
                 /\ UNCHANGED unanswered
    /\ UNCHANGED <<prog, process, childState, idAtSpawn, late, stdout, report, excn,
                   disconnectCalls, lastRet, deviations, mainVars>>

\* readline returns a line: json.loads, then the response is returned to the
\* check procedure as it is.
RecvLine ==
    /\ prog = "compliance" /\ call # NoCall /\ stdout # <<>>
    /\ LET line == Head(stdout)
           func == tests[testIdx].func
       IN  /\ stdout' = Tail(stdout)
           /\ IF line.json
              THEN /\ lastRet' = <<call.id, line.id, line.error>>
                   /\ Resume(CheckStep(func, step, line, message_id))
              ELSE /\ UNCHANGED lastRet
                   /\ Resume(CheckSendFailed(func, step, "JSONDecodeError"))
    /\ UNCHANGED <<prog, process, childState, message_id, sent, idAtSpawn, unanswered,
                   late, report, excn, disconnectCalls, deviations, mainVars>>

\* readline returns b"" at end of stream.
RecvEof ==
    /\ prog = "compliance" /\ call # NoCall /\ stdout = <<>>
    /\ childState = "exited"
    /\ Resume(CheckSendFailed(tests[testIdx].func, step, "Server connection closed"))
    /\ UNCHANGED <<prog, process, message_id, sent, idAtSpawn, report, excn,
                   disconnectCalls, lastRet, mainVars, childVars>>

\* asyncio.wait_for gives up: 30 s have passed without a line. The child
\* holds no request that it answers in time.
Timeout ==
    /\ prog = "compliance" /\ call # NoCall /\ stdout = <<>>
    /\ childState = "running"
    /\ unanswered = {}
    /\ Resume(CheckSendFailed(tests[testIdx].func, step, "Response timeout"))
    /\ UNCHANGED <<prog, process, message_id, sent, idAtSpawn, report, excn,
                   disconnectCalls, lastRet, mainVars, childVars>>

\* Abort as it would be if the cancellation left the run at once.
Abort_escapes ==
    /\ prog \in {"compliance", "workflow"} /\ pc = "running" /\ call # NoCall
    /\ deviations < MaxDeviations
    /\ deviations' = deviations + 1
    /\ call' = NoCall
    /\ excn' = "CancelledError"
    /\ pc' = "failed"
    /\ UNCHANGED <<prog, process, childState, message_id, sent, idAtSpawn, unanswered,
                   late, stdout, testIdx, step, results, report, disconnectCalls,
                   lastRet, lastOutcome, mainVars>>

\* The run is cancelled from outside (a shutdown signal) while a send awaits
\* its line: CancelledError and KeyboardInterrupt are no Exception, so no
\* except clause holds them and they reach the finally clause of the run.
Abort ==
    /\ prog \in {"compliance", "workflow"} /\ pc = "running" /\ call # NoCall
    /\ deviations < MaxDeviations
    /\ deviations' = deviations + 1
    /\ call' = NoCall
    /\ excn' = "CancelledError"
    /\ pc' = "finally"
    /\ UNCHANGED <<prog, process, childState, message_id, sent, idAtSpawn, unanswered,
                   late, stdout, testIdx, step, results, report, disconnectCalls,
                   lastRet, lastOutcome, mainVars>>

\* Disconnect as it would be without the finally clause: disconnect() is
\* reached only when no check has failed and connect() has not raised.
Disconnect_noFinally ==
    /\ prog = "compliance" /\ pc = "finally"
    /\ LET skipped == excn # "none" \/ \E i \in 1..Len(results) : ~results[i].passed
       IN  /\ disconnectCalls' = IF skipped THEN disconnectCalls
                                 ELSE disconnectCalls + 1
           /\ childState' = IF childState = "running" /\ ~skipped
                            THEN "terminated" ELSE childState
    /\ pc' = IF excn = "none" THEN "reporting" ELSE "failed"
    /\ unanswered' = {}
    /\ late' = {}
    /\ UNCHANGED <<prog, process, message_id, sent, idAtSpawn, stdout, call, testIdx,
                   step, results, report, excn, lastRet, lastOutcome, deviations,
                   mainVars>>

\* The finally clause: disconnect(). terminate() on a child that has exited
\* raises ProcessLookupError once the loop has closed the subprocess transport;
\* raised while the clause handles a cancellation, it leaves the run with
\* the CancelledError as its context.
Disconnect ==
    /\ prog = "compliance" /\ pc = "finally"
    /\ disconnectCalls' = disconnectCalls + 1
    /\ \/ /\ process = 0
          /\ pc' = IF excn = "none" THEN "reporting" ELSE "failed"
          /\ UNCHANGED <<childState, unanswered, late, excn>>
       \/ /\ process # 0 /\ childState = "running"
          /\ childState' = "terminated"
          /\ unanswered' = {}
          /\ late' = {}
          /\ pc' = IF excn = "none" THEN "reporting" ELSE "failed"
          /\ UNCHANGED excn
       \/ /\ process # 0 /\ childState # "running"
          /\ pc' = IF excn = "none" THEN "reporting" ELSE "failed"
          /\ UNCHANGED <<childState, unanswered, late, excn>>
       \/ /\ process # 0 /\ childState # "running"
          /\ excn' = IF excn = "CancelledError"
                     THEN "ProcessLookupError during CancelledError"
                     ELSE "ProcessLookupError"
          /\ pc' = "failed"
          /\ UNCHANGED <<childState, unanswered, late>>
    /\ UNCHANGED <<prog, process, message_id, sent, idAtSpawn, stdout, call, testIdx,
                   step, results, report, lastRet, lastOutcome, deviations, mainVars>>

\* The report is assembled and returned.
GenerateReport ==
    /\ prog = "compliance" /\ pc = "reporting"
    /\ IF Len(results) = 0
       THEN excn' = "ZeroDivisionError" /\ pc' = "failed" /\ UNCHANGED report
       ELSE report' = ComplianceReport(results) /\ pc' = "done" /\ UNCHANGED excn
    /\ UNCHANGED <<prog, process, message_id, sent, idAtSpawn, call, testIdx, step,
                   results, disconnectCalls, lastRet, lastOutcome, mainVars,
                   childVars>>

\* --------------------------------------------------------------- MCPClient
\* example_workflow and interactive_session: connect() first, inside a try
\* whose finally clause calls disconnect(); interactive_session goes on
\* after an operation has raised, example_workflow leaves.
Workflow == prog = "workflow"
ClientProg == prog \in {"client", "workflow"}

\* Where a workflow stands after a send of its client has ended: an
\* exception that leaves connect() takes it to the finally clause.
AfterClientCall(outcome) ==
    IF Workflow /\ call.method = "initialize" /\ outcome.kind = "raise"
    THEN "finally" ELSE pc

\* The operations of MCPClient that send one request, and their methods.
ClientMethods ==
    {"tools/list", "tools/call", "resources/list", "resources/read",
     "prompts/list", "prompts/get"}

\* What an operation does with the MCPMessage that send_message returned:
\* it raises RuntimeError when response.error is set; initialize and the
\* three list operations then call response.result.get(...).
ClientOpResult(method, response) ==
    IF HasError(response) THEN Raise("RuntimeError: request failed")
    ELSE IF /\ method \in {"initialize", "tools/list", "resources/list", "prompts/list"}
            /\ response.result \in {"absent", "null"}
         THEN Raise("AttributeError")
    ELSE Pass

\* connect(): spawn the child, then initialize() up to the await of readline.
ClientConnect ==
    /\ prog = "client" \/ (Workflow /\ pc = "idle")
    /\ call = NoCall
    /\ process < MaxSpawns /\ message_id < MaxId
    /\ \/ /\ lastOutcome' = Raise("FileNotFoundError")
          /\ pc' = IF Workflow THEN "finally" ELSE pc
          /\ UNCHANGED <<process, childState, message_id, sent, idAtSpawn, unanswered,
                         late, stdout, call>>
       \/ LET req == [id |-> NextId(message_id), method |-> "initialize"]
          IN  /\ process' = process + 1
              /\ childState' = "running"
              /\ idAtSpawn' = message_id
              /\ message_id' = req.id
              /\ sent' = Append(sent, Sent(process + 1, req))
              /\ unanswered' = {req}
              /\ late' = {}
              /\ stdout' = <<>>
              /\ call' = req
              /\ pc' = IF Workflow THEN "running" ELSE pc
              /\ UNCHANGED lastOutcome
    /\ UNCHANGED <<prog, testIdx, step, results, report, excn, disconnectCalls,
                   lastRet, deviations, mainVars>>

\* list_tools, call_tool, list_resources, read_resource, list_prompts,
\* get_prompt: the id is taken, then send_message up to the await of readline.
ClientOp ==
    /\ prog = "client" \/ (Workflow /\ pc = "running")
    /\ call = NoCall
    /\ message_id < MaxId
    /\ \E m \in ClientMethods :
        LET req == [id |-> NextId(message_id), method |-> m]
        IN  /\ message_id' = req.id
            /\ \/ /\ process = 0
                  /\ lastOutcome' = Raise("Not connected to MCP server")
                  /\ UNCHANGED <<sent, unanswered, call>>
               \/ /\ process # 0 /\ childState = "running"
                  /\ sent' = Append(sent, Sent(process, req))
                  /\ unanswered' = unanswered \cup {req}
                  /\ call' = req
                  /\ UNCHANGED lastOutcome
               \/ /\ process # 0 /\ childState # "running"
                  /\ sent' = Append(sent, Sent(process, req))
                  /\ call' = req
                  /\ UNCHANGED <<unanswered, lastOutcome>>
               \/ /\ process # 0 /\ childState # "running"
                  /\ sent' = Append(sent, Sent(process, req))
                  /\ lastOutcome' = Raise("Connection lost")
                  /\ UNCHANGED <<unanswered, call>>
    /\ UNCHANGED <<prog, pc, process, childState, idAtSpawn, late, stdout, testIdx,
                   step, results, report, excn, disconnectCalls, lastRet, deviations,
                   mainVars>>

\* readline returns a line: json.loads, the MCPMessage is returned to the
\* operation as it is.
ClientRecvLine ==
    /\ ClientProg /\ call # NoCall /\ stdout # <<>>
    /\ LET line == Head(stdout)
       IN  /\ stdout' = Tail(stdout)
           /\ call' = NoCall
           /\ IF line.json
              THEN /\ lastRet' = <<call.id, line.id, line.error>>
                   /\ lastOutcome' = ClientOpResult(call.method, line)
              ELSE /\ UNCHANGED lastRet
                   /\ lastOutcome' = Raise("JSONDecodeError")
    /\ pc' = AfterClientCall(lastOutcome')
    /\ UNCHANGED <<prog, process, childState, message_id, sent, idAtSpawn,
                   unanswered, late, testIdx, step, results, report, excn,
                   disconnectCalls, deviations, mainVars>>

\* readline returns b"" at end of stream.
ClientRecvEof ==
    /\ ClientProg /\ call # NoCall /\ stdout = <<>>
    /\ childState \in {"exited", "terminated"}
    /\ call' = NoCall
    /\ lastOutcome' = Raise("Server connection closed")
    /\ pc' = AfterClientCall(lastOutcome')
    /\ UNCHANGED <<prog, process, message_id, sent, idAtSpawn, testIdx, step,
                   results, report, excn, disconnectCalls, lastRet, mainVars,
                   childVars>>

\* disconnect(): terminate() and wait() when self.process is set, which it
\* stays after a disconnect. terminate() raises ProcessLookupError once the
\* loop has closed the subprocess transport: always after an earlier wait()
\* has returned, and after the child exited on its own as soon as the loop
\* has seen the exit.
ClientDisconnect ==
    /\ prog = "client" \/ (Workflow /\ pc \in {"running", "finally"})
    /\ call = NoCall
    /\ disconnectCalls < MaxDisconnects
    /\ disconnectCalls' = disconnectCalls + 1
    /\ \/ /\ process = 0
          /\ lastOutcome' = Pass
          /\ UNCHANGED <<childState, unanswered, late>>
       \/ /\ process # 0 /\ childState = "running"
          /\ childState' = "terminated"
          /\ unanswered' = {}
          /\ late' = {}
          /\ lastOutcome' = Pass
       \/ /\ process # 0 /\ childState = "exited"
          /\ lastOutcome' = Pass
          /\ UNCHANGED <<childState, unanswered, late>>
       \/ /\ process # 0 /\ childState # "running"
          /\ lastOutcome' = Raise("ProcessLookupError")
          /\ UNCHANGED <<childState, unanswered, late>>
    /\ pc' = IF ~Workflow THEN pc
             ELSE IF lastOutcome'.kind = "raise" \/ excn # "none" THEN "failed"
             ELSE "done"
    /\ UNCHANGED <<prog, process, message_id, sent, idAtSpawn, stdout, call,
                   testIdx, step, results, report, excn, lastRet, deviations,
                   mainVars>>

\* -------------------------------------------------------- example_workflow
\* example_workflow() statement by statement: connect, the three listings,
\* validate_hgvs, then (when the notation is reported valid) query_evidence,
\* classify_variant and generate_report, then get_prompt; disconnect in the
\* finally clause. `step` is the position in ExampleSteps, `excn` the
\* exception on its way out of the function.
ExampleWorkflow == prog = "example_workflow"

ExampleSteps ==
    <<"tools/list", "resources/list", "prompts/list", "tools/call validate_hgvs",
      "tools/call query_evidence", "tools/call classify_variant",
      "tools/call generate_report", "prompts/get">>

StepOf(m) == CHOOSE i \in 1..Len(ExampleSteps) : ExampleSteps[i] = m

\* What the call and the statements after it do with the answer: the
\* operation of MCPClient first, then validation.get, evidence.get,
\* classification.get and prompt_result.get, which need an object.
ExampleUse(method, response) ==
    IF ClientOpResult(method, response).kind = "raise"
    THEN ClientOpResult(method, response)
    ELSE IF /\ method \in {"tools/call validate_hgvs", "tools/call query_evidence",
                           "tools/call classify_variant", "prompts/get"}
            /\ response.result \in {"absent", "null"}
         THEN Raise("AttributeError")
    ELSE Pass

\* if validation.get("valid"): a result without a true "valid" member skips
\* to the interpretation prompt.
NextStep(s, response) ==
    IF ExampleSteps[s] = "tools/call validate_hgvs" /\ response.result # "good"
    THEN StepOf("prompts/get")
    ELSE s + 1

\* client.connect(): spawn the child, then initialize() up to the await of
\* readline.
ExampleConnect ==
    /\ ExampleWorkflow /\ pc = "idle"
    /\ \/ /\ excn' = "FileNotFoundError"
          /\ pc' = "finally"
          /\ UNCHANGED <<process, childState, message_id, sent, idAtSpawn, unanswered,
                         late, stdout, call>>
       \/ LET req == [id |-> NextId(message_id), method |-> "initialize"]
          IN  /\ process' = process + 1
              /\ childState' = "running"
              /\ idAtSpawn' = message_id
              /\ message_id' = req.id
              /\ sent' = Append(sent, Sent(process + 1, req))
              /\ unanswered' = {req}
              /\ late' = {}
              /\ stdout' = <<>>
              /\ call' = req
              /\ pc' = "running"
              /\ UNCHANGED excn
    /\ UNCHANGED <<prog, testIdx, step, results, report, disconnectCalls, lastRet,
                   lastOutcome, deviations, mainVars>>

\* The next call of the workflow, up to the await of readline. The arguments
\* of get_prompt are evaluated before it is called: classification.get(...)
\* reads a local name that only the classify_variant statement binds.
ExampleCall ==
    /\ ExampleWorkflow /\ pc = "running" /\ call = NoCall
    /\ step <= Len(ExampleSteps)
    /\ LET req == [id |-> NextId(message_id), method |-> ExampleSteps[step]]
       IN  IF req.method = "prompts/get" /\ "classification" \notin bound
           THEN /\ excn' = "UnboundLocalError"
                /\ pc' = "finally"
                /\ UNCHANGED <<message_id, sent, unanswered, call>>
           ELSE /\ message_id' = req.id
                /\ sent' = Append(sent, Sent(process, req))
                /\ \/ /\ childState = "running"
                      /\ unanswered' = unanswered \cup {req}
                      /\ call' = req
                      /\ UNCHANGED <<pc, excn>>
                   \/ /\ childState = "exited"
                      /\ call' = req
                      /\ UNCHANGED <<unanswered, pc, excn>>
                   \/ /\ childState = "exited"
                      /\ excn' = "ConnectionResetError"
                      /\ pc' = "finally"
                      /\ UNCHANGED <<unanswered, call>>
    /\ UNCHANGED <<prog, process, childState, idAtSpawn, late, stdout, testIdx, step,
                   results, report, disconnectCalls, lastRet, lastOutcome, deviations,
                   mainVars>>

\* readline returns a line: the call returns or raises, the statements up to
\* the next call run. The assignment of classify_variant binds
\* `classification` whenever the call returns.
ExampleRecvLine ==
    /\ ExampleWorkflow /\ call # NoCall /\ stdout # <<>>
    /\ LET line == Head(stdout)
           outcome == IF line.json THEN ExampleUse(call.method, line)
                      ELSE Raise("JSONDecodeError")
           returned == line.json /\ ClientOpResult(call.method, line).kind = "pass"
       IN  /\ stdout' = Tail(stdout)
           /\ call' = NoCall
           /\ lastRet' = IF line.json THEN <<call.id, line.id, line.error>> ELSE lastRet
           /\ lastOutcome' = outcome
           /\ bound' = IF call.method = "tools/call classify_variant" /\ returned
                       THEN bound \cup {"classification"} ELSE bound
           /\ IF outcome.kind = "raise"
              THEN /\ excn' = outcome.msg
                   /\ pc' = "finally"
                   /\ UNCHANGED step
              ELSE /\ UNCHANGED excn
                   /\ IF call.method = "initialize"
                      THEN UNCHANGED <<step, pc>>
                      ELSE /\ step' = NextStep(step, line)
                           /\ pc' = IF step' > Len(ExampleSteps) THEN "finally"
                                    ELSE "running"
    /\ UNCHANGED <<prog, process, childState, message_id, sent, idAtSpawn, unanswered,
                   late, testIdx, results, report, disconnectCalls, deviations,
                   test_cases, runs, exit_status>>

\* readline returns b"" at end of stream.
ExampleRecvEof ==
    /\ ExampleWorkflow /\ call # NoCall /\ stdout = <<>>
    /\ childState = "exited"
    /\ call' = NoCall
    /\ lastOutcome' = Raise("Server connection closed")
    /\ excn' = "Server connection closed"
    /\ pc' = "finally"
    /\ UNCHANGED <<prog, process, message_id, sent, idAtSpawn, testIdx, step,
                   results, report, disconnectCalls, lastRet, mainVars, childVars>>

\* finally: await client.disconnect(); an exception caught by the except
\* clause is raised again and leaves the function.
ExampleDisconnect ==
    /\ ExampleWorkflow /\ pc = "finally"
    /\ disconnectCalls' = disconnectCalls + 1
    /\ \/ /\ process = 0
          /\ UNCHANGED <<childState, unanswered, late, excn>>
       \/ /\ process # 0 /\ childState = "running"
          /\ childState' = "terminated"
          /\ unanswered' = {}
          /\ late' = {}
          /\ UNCHANGED excn
       \/ /\ process # 0 /\ childState = "exited"
          /\ UNCHANGED <<childState, unanswered, late, excn>>
       \/ /\ process # 0 /\ childState = "exited"
          /\ excn' = "ProcessLookupError"
          /\ UNCHANGED <<childState, unanswered, late>>
    /\ pc' = IF excn' # "none" THEN "failed" ELSE "done"
    /\ UNCHANGED <<prog, process, message_id, sent, idAtSpawn, stdout, call,
                   testIdx, step, results, report, lastRet, lastOutcome, deviations,
                   mainVars>>

\* ---------------------------------------------- ClinicalAccuracyValidator
\* Test cases: two of create_default_test_cases, and one as load_test_cases
\* builds it from a row without a confidence_threshold (the default, 0.8).
\* Confidence values are in hundredths.
CasePool ==
    {[variant_id |-> "BRCA1_185delA", expected_classification |-> "Pathogenic",
      expected_criteria |-> {"PVS1", "PM2"}, confidence_threshold |-> 95],
     [variant_id |-> "benign_row_default_threshold", expected_classification |-> "Benign",
      expected_criteria |-> {"BA1"}, confidence_threshold |-> 80],
     [variant_id |-> "BRCA1_VUS", expected_classification |-> "Uncertain Significance",
      expected_criteria |-> {}, confidence_threshold |-> 60]}

\* str(e) of the RuntimeError that MCPClient.call_tool raises for a response
\* whose error says that the server has no such tool.
ToolCallFailed ==
    "Tool call failed: {'code': -32601, 'message': 'Tool not found: classify_variant'}"

\* What mcp_client.call_tool("classify_variant", ...) gives back: a result
\* object, None, or an exception.
ToolReturns ==
    {[kind |-> "dict", classification |-> "Pathogenic", confidence |-> 98,
      applied_criteria |-> {"PVS1", "PM2"}],
     [kind |-> "dict", classification |-> "Likely Pathogenic", confidence |-> 93,
      applied_criteria |-> {"PVS1", "PP3"}],
     [kind |-> "dict", classification |-> "Uncertain Significance", confidence |-> 65,
      applied_criteria |-> {}],
     [kind |-> "dict", classification |-> "Likely Benign", confidence |-> 70,
      applied_criteria |-> {"BA1"}],
     [kind |-> "None"],
     [kind |-> "raise", msg |-> ToolCallFailed]}

\* time.time() - start_time, in seconds: 0 on a coarse clock.
Durations == {0, 1, 6}

\* calculate_criteria_accuracy as it would be if it divided by the number of
\* expected criteria.
calculate_criteria_accuracy_recall(predicted, expected) ==
    IF expected = {} THEN <<1, 1>>
    ELSE <<Cardinality(predicted \cap expected), Cardinality(expected)>>

\* calculate_criteria_accuracy as it would be without the early return for an
\* empty set of expected criteria.
calculate_criteria_accuracy_plainJaccard(predicted, expected) ==
    IF predicted \cup expected = {} THEN <<1, 1>>
    ELSE <<Cardinality(predicted \cap expected), Cardinality(predicted \cup expected)>>

\* calculate_criteria_accuracy: <<numerator, denominator>>.
calculate_criteria_accuracy(predicted, expected) ==
    IF expected = {} THEN <<1, 1>>
    ELSE IF predicted = {} /\ expected = {} THEN <<1, 1>>
    ELSE IF predicted \cup expected = {} THEN <<0, 1>>
    ELSE <<Cardinality(predicted \cap expected), Cardinality(predicted \cup expected)>>

\* acceptable_mappings as they would be if they reached two steps.
acceptable_mappings_twoSteps(expected) ==
    CASE expected = "Pathogenic" -> {"Likely Pathogenic", "Uncertain Significance"}
      [] expected = "Likely Pathogenic" ->
            {"Pathogenic", "Uncertain Significance", "Likely Benign"}
      [] expected = "Uncertain Significance" ->
            {"Pathogenic", "Likely Pathogenic", "Likely Benign", "Benign"}
      [] expected = "Likely Benign" ->
            {"Benign", "Uncertain Significance", "Likely Pathogenic"}
      [] expected = "Benign" -> {"Likely Benign", "Uncertain Significance"}
      [] OTHER -> {}

\* The dictionary acceptable_mappings, read with .get(expected, []).
acceptable_mappings(expected) ==
    CASE expected = "Pathogenic" -> {"Likely Pathogenic"}
      [] expected = "Likely Pathogenic" -> {"Pathogenic", "Uncertain Significance"}
      [] expected = "Uncertain Significance" -> {"Likely Pathogenic", "Likely Benign"}
      [] expected = "Likely Benign" -> {"Benign", "Uncertain Significance"}
      [] expected = "Benign" -> {"Likely Benign"}
      [] OTHER -> {}

classify_prediction_accuracy(predicted, expected) ==
    \/ predicted = expected
    \/ predicted \in acceptable_mappings(expected)

\* Thresholds t (hundredths, 10..100) for which the double t/100 - 0.1 is
\* greater than the double (t - 10)/100: 0.8 - 0.1 is 0.7000000000000001.
RoundsUp == {14, 28, 34, 39, 40, 51, 52, 53, 54, 55, 56, 67, 68, 79, 80, 81, 92, 93}

\* confidence_score >= test_case.confidence_threshold - 0.1, in doubles.
MeetsSlack(confidence, threshold) ==
    \/ confidence > threshold - 10
    \/ confidence = threshold - 10 /\ threshold \notin RoundsUp

\* validate_test_case as it would be if the result of a failed call did not
\* name its case.
validate_test_case_noId(test_case, ret, duration) ==
    [test_case_id |-> IF ret.kind = "dict" THEN test_case.variant_id ELSE "Error",
     passed |-> FALSE,
     predicted_classification |-> "Error",
     expected_classification |-> test_case.expected_classification,
     confidence_score |-> 0,
     applied_criteria |-> {},
     expected_criteria |-> test_case.expected_criteria,
     criteria_accuracy |-> <<0, 1>>,
     message |-> <<"Classification failed: ", "Error">>,
     duration |-> duration]

\* validate_test_case, given what classify_variant returned or raised and
\* the measured duration.
validate_test_case(test_case, ret, duration) ==
    IF ret.kind = "dict" THEN
        LET classification_accurate ==
                classify_prediction_accuracy(ret.classification,
                                             test_case.expected_classification)
            passed == /\ classification_accurate
                      /\ MeetsSlack(ret.confidence, test_case.confidence_threshold)
        IN  [test_case_id |-> test_case.variant_id,
             passed |-> passed,
             predicted_classification |-> ret.classification,
             expected_classification |-> test_case.expected_classification,
             confidence_score |-> ret.confidence,
             applied_criteria |-> ret.applied_criteria,
             expected_criteria |-> test_case.expected_criteria,
             criteria_accuracy |->
                 calculate_criteria_accuracy(ret.applied_criteria,
                                             test_case.expected_criteria),
             message |->
                 IF ~classification_accurate
                 THEN <<"Expected ", test_case.expected_classification, ", got ",
                        ret.classification>>
                 ELSE IF ret.confidence < test_case.confidence_threshold
                 THEN <<"Low confidence: ", ret.confidence>>
                 ELSE IF passed THEN <<"Classification accurate">>
                 ELSE <<"Classification mismatch">>,
             duration |-> duration]
    ELSE
        [test_case_id |-> test_case.variant_id,
         passed |-> FALSE,
         predicted_classification |-> "Error",
         expected_classification |-> test_case.expected_classification,
         confidence_score |-> 0,
         applied_criteria |-> {},
         expected_criteria |-> test_case.expected_criteria,
         criteria_accuracy |-> <<0, 1>>,
         message |-> <<"Classification failed: ",
                       IF ret.kind = "raise" THEN ret.msg ELSE "AttributeError">>,
         duration |-> duration]

\* Fractions <<numerator, denominator>>.
FracAdd(a, b) == <<a[1] * b[2] + b[1] * a[2], a[2] * b[2]>>
FracLess(a, b) == a[1] * b[2] < b[1] * a[2]
FracEq(a, b) == a[1] * b[2] = b[1] * a[2]

\* sum(r.criteria_accuracy for r in results)
RECURSIVE SumCriteriaAccuracy(_, _)
SumCriteriaAccuracy(rs, n) ==
    IF n = 0 THEN <<0, 1>>
    ELSE FracAdd(SumCriteriaAccuracy(rs, n - 1), rs[n].criteria_accuracy)

\* sum(r.duration for r in results if r.duration)
RECURSIVE SumDuration(_, _)
SumDuration(rs, n) ==
    IF n = 0 THEN 0 ELSE SumDuration(rs, n - 1) + rs[n].duration

classifications ==
    <<"Pathogenic", "Likely Pathogenic", "Uncertain Significance", "Likely Benign",
      "Benign">>

\* results_by_classification: an entry for each class some result expects.
results_by_classification(rs) ==
    LET cls_results(cls) == {i \in 1..Len(rs) : rs[i].expected_classification = cls}
        present == {classifications[k] : k \in 1..Len(classifications)}
                   \cap {rs[i].expected_classification : i \in 1..Len(rs)}
    IN  [cls \in present |->
            [total |-> Cardinality(cls_results(cls)),
             correct |-> Cardinality({i \in cls_results(cls) : rs[i].passed})]]

\* f"{cls} classification accuracy low ... - review {cls.lower()} detection"
ClassAdvisory(cls) ==
    CASE cls = "Pathogenic" -> "Pathogenic classification accuracy low"
      [] cls = "Likely Pathogenic" -> "Likely Pathogenic classification accuracy low"
      [] cls = "Uncertain Significance" ->
            "Uncertain Significance classification accuracy low"
      [] cls = "Likely Benign" -> "Likely Benign classification accuracy low"
      [] OTHER -> "Benign classification accuracy low"

AllTargetsMet == "All clinical accuracy metrics meet or exceed targets"

\* Recommendations as they would be if the affirmative statement were
\* appended whatever rules fired.
Recommendations_alwaysAffirm(classification_accuracy, criteria_accuracy, average_response_time, by_class) ==
    (IF FracLess(classification_accuracy, <<95, 100>>)
     THEN <<"Classification accuracy below 95%">> ELSE <<>>)
    \o <<AllTargetsMet>>

\* The recommendations of run_validation: one advisory per rule that fires,
\* in the order of the rules; the affirmative statement when none fires.
Recommendations(classification_accuracy, criteria_accuracy, average_response_time, by_class) ==
    LET rule(fired, text) == [fired |-> fired, text |-> text]
        class_rule(cls) ==
            rule(/\ cls \in DOMAIN by_class
                 /\ FracLess(<<by_class[cls].correct, by_class[cls].total>>, <<90, 100>>),
                 ClassAdvisory(cls))
        rules ==
            << rule(FracLess(classification_accuracy, <<95, 100>>),
                    "Classification accuracy below 95%"),
               rule(FracLess(criteria_accuracy, <<80, 100>>),
                    "ACMG/AMP criteria accuracy below 80%"),
               rule(FracLess(<<5, 1>>, average_response_time),
                    "Average response time > 5 seconds") >>
            \o [k \in 1..Len(classifications) |-> class_rule(classifications[k])]
        fired == SelectSeq(rules, LAMBDA r : r.fired)
    IN  IF fired = <<>> THEN <<AllTargetsMet>>
        ELSE [k \in 1..Len(fired) |-> fired[k].text]

\* high_confidence_results as they would be if every result counted.
high_confidence_results_all(rs) == 1..Len(rs)

\* [r for r in results if r.confidence_score >= 0.9], as indices.
high_confidence_results(rs) == {i \in 1..Len(rs) : rs[i].confidence_score >= 90}

\* The report assembled at the end of run_validation.
ClinicalReport(rs) ==
    LET total_variants == Len(rs)
        classification_accuracy ==
            <<Cardinality({i \in 1..Len(rs) : rs[i].passed}),
              IF total_variants > 0 THEN total_variants ELSE 1>>
        criteria_sum == SumCriteriaAccuracy(rs, Len(rs))
        criteria_accuracy ==
            IF total_variants > 0
            THEN <<criteria_sum[1], criteria_sum[2] * total_variants>>
            ELSE <<0, 1>>
        average_response_time ==
            <<SumDuration(rs, Len(rs)),
              Cardinality({i \in 1..Len(rs) : rs[i].duration # 0})>>
        by_class == results_by_classification(rs)
    IN  [kind |-> "ClinicalReport",
         total_variants |-> total_variants,
         classification_accuracy |-> classification_accuracy,
         criteria_accuracy |-> criteria_accuracy,
         high_confidence_accuracy |->
             IF high_confidence_results(rs) # {}
             THEN <<Cardinality({i \in high_confidence_results(rs) : rs[i].passed}),
                    Cardinality(high_confidence_results(rs))>>
             ELSE <<0, 1>>,
         results_by_classification |-> by_class,
         average_response_time |-> average_response_time,
         recommendations |->
             Recommendations(classification_accuracy, criteria_accuracy,
                             average_response_time, by_class),
         detailed_results |-> rs]

\* One turn of the loop of run_validation: validate_test_case, append.
ValidateTestCase ==
    /\ prog = "accuracy" /\ pc = "validating"
    /\ testIdx <= Len(test_cases)
    /\ \E ret \in ToolReturns : \E d \in Durations :
        /\ results' = Append(results, validate_test_case(test_cases[testIdx], ret, d))
        /\ lastOutcome' = IF ret.kind = "dict" THEN Pass
                          ELSE IF ret.kind = "raise" THEN Raise(ret.msg)
                          ELSE Raise("AttributeError")
    /\ testIdx' = testIdx + 1
    /\ UNCHANGED <<prog, pc, process, message_id, sent, idAtSpawn, call, step, report,
                   excn, disconnectCalls, lastRet, mainVars, childVars>>

\* run_validation after the loop: the metrics and the report.
\* statistics.mean raises StatisticsError when no result has a duration
\* that is true.
GenerateClinicalReport ==
    /\ prog = "accuracy" /\ pc = "validating"
    /\ testIdx > Len(test_cases)
    /\ IF \A i \in 1..Len(results) : results[i].duration = 0
       THEN excn' = "StatisticsError" /\ pc' = "failed" /\ UNCHANGED report
       ELSE report' = ClinicalReport(results) /\ pc' = "done" /\ UNCHANGED excn
    /\ UNCHANGED <<prog, process, message_id, sent, idAtSpawn, call, testIdx, step,
                   results, disconnectCalls, lastRet, lastOutcome, mainVars,
                   childVars>>

\* ------------------------------------------------------------------- main
\* The exit status of the compliance main as it would be if main did not
\* look at failed_tests.
compliance_exit_status_reportOnly(rep) ==
    IF rep.kind = "ComplianceReport" THEN 0 ELSE 1

\* sys.exit(0 if report.failed_tests == 0 else 1) of the compliance main, and
\* its `except Exception` that exits with 1.
compliance_exit_status(rep) ==
    IF rep.kind = "ComplianceReport" /\ rep.failed_tests = 0 THEN 0 ELSE 1

\* sys.exit(0 if report.classification_accuracy >= success_threshold else 1)
\* of the accuracy main.
accuracy_exit_status(rep) ==
    IF ~FracLess(rep.classification_accuracy, <<95, 100>>) THEN 0 ELSE 1

\* The end of main(). An exception that leaves asyncio.run(main()) ends the
\* interpreter with status 1; a cancellation that came from Ctrl-C ends it
\* with the status of the signal.
Exit ==
    /\ prog \in {"compliance", "accuracy"} /\ runs = 1
    /\ pc \in {"done", "failed"} /\ exit_status = NotExited
    /\ exit_status' \in
         IF pc = "failed"
         THEN IF excn \in {"CancelledError", "ProcessLookupError during CancelledError"}
              THEN {1, 130} ELSE {1}
         ELSE IF prog = "compliance" THEN {compliance_exit_status(report)}
         ELSE {accuracy_exit_status(report)}
    /\ UNCHANGED <<prog, pc, process, message_id, sent, idAtSpawn, call, testIdx,
                   step, results, report, excn, disconnectCalls, lastRet, lastOutcome,
                   test_cases, runs, bound, childVars>>

\* A caller that holds the validator calls run_all_validations once more,
\* after the first call has returned its report. __init__ is not run again:
\* self.results and self.message_id are as the first call left them.
RunAgain ==
    /\ prog = "compliance" /\ pc = "done" /\ runs = 1
    /\ exit_status = NotExited
    /\ deviations < MaxDeviations
    /\ deviations' = deviations + 1
    /\ runs' = runs + 1
    /\ pc' = "idle"
    /\ testIdx' = 1
    /\ step' = 1
    /\ report' = NoReport
    /\ UNCHANGED <<prog, process, childState, message_id, sent, idAtSpawn, unanswered,
                   late, stdout, call, results, excn, disconnectCalls, lastRet,
                   lastOutcome, test_cases, exit_status, bound>>

\* ------------------------------------------------------------ specification
\* Sequences over S of length at most n.
SeqUpTo(S, n) == UNION {[1..k -> S] : k \in 0..n}

Init ==
    /\ prog \in {"compliance", "client", "workflow", "example_workflow", "accuracy"}
    /\ pc = IF prog = "accuracy" THEN "validating" ELSE "idle"
    /\ test_cases \in IF prog = "accuracy" THEN SeqUpTo(CasePool, MaxCases) ELSE {<<>>}
    /\ process = 0
    /\ childState = "none"
    /\ message_id = 0
    /\ sent = <<>>
    /\ idAtSpawn = 0
    /\ unanswered = {}
    /\ late = {}
    /\ stdout = <<>>
    /\ call = NoCall
    /\ testIdx = 1
    /\ step = 1
    /\ results = <<>>
    /\ report = NoReport
    /\ excn = "none"
    /\ disconnectCalls = 0
    /\ lastRet = <<0, 0, 0>>
    /\ lastOutcome = Pass
    /\ deviations = 0
    /\ runs = 1
    /\ exit_status = NotExited
    /\ bound = {}

Next ==
    \/ Connect
    \/ Send
    \/ RecvLine
    \/ RecvEof
    \/ Timeout
    \/ Abort
    \/ Disconnect
    \/ GenerateReport
    \/ ChildReply
    \/ ChildDelay
    \/ ChildLateReply
    \/ ChildNotify
    \/ ChildExit
    \/ ClientConnect
    \/ ClientOp
    \/ ClientRecvLine
    \/ ClientRecvEof
    \/ ClientDisconnect
    \/ ExampleConnect
    \/ ExampleCall
    \/ ExampleRecvLine
    \/ ExampleRecvEof
    \/ ExampleDisconnect
    \/ ValidateTestCase
    \/ GenerateClinicalReport
    \/ Exit
    \/ RunAgain

Spec == Init /\ [][Next]_vars

\* The event loop resumes a task whose readline has a line or has reached
\* end of stream, and one whose wait_for timer has expired; a child that
\* holds a request and has not delayed it answers it.
Fairness ==
    /\ WF_vars(RecvLine) /\ WF_vars(RecvEof) /\ WF_vars(Timeout)
    /\ WF_vars(ClientRecvLine) /\ WF_vars(ClientRecvEof)
    /\ WF_vars(ChildReply)

FairSpec == Init /\ [][Next]_vars /\ Fairness

\* ------------------------------------------------------------------ claims
\* The first run of a validator: run_all_validations on a fresh object.
Compliance == prog = "compliance" /\ runs = 1
Accuracy == prog = "accuracy"
Connected == process # 0
\* The run was cancelled from outside.
Cancelled == excn \in {"CancelledError", "ProcessLookupError during CancelledError"}

\* C1: on a fresh MCPProtocolValidator whose connect() succeeded, every
\* check that has finished, passing or raising, has appended exactly one
\* result: once the loop is over there are NumTests = 9 results, and the
\* report counts 9.
C1_OneResultPerCheck ==
    Compliance /\ Connected /\ ~Cancelled =>
        /\ NumTests = 9
        /\ Len(results) = testIdx - 1
        /\ pc \in {"finally", "reporting", "done", "failed"} => Len(results) = NumTests
        /\ report # NoReport => report.total_tests = NumTests

C1_Witness ==
    /\ Compliance /\ pc = "done"
    /\ report.failed_tests >= 2 /\ report.passed_tests >= 2

\* C2: the i-th result carries the name of the i-th registered check,
\* whatever checks fail, and a request in flight belongs to the check that
\* follows the last appended result.
C2_RegistrationOrder ==
    Compliance =>
        /\ Len(results) <= NumTests
        /\ \A i \in 1..Len(results) : results[i].test_name = tests[i].name
        /\ call # NoCall =>
              /\ Len(results) < NumTests
              /\ \E s \in {1, 2} :
                    call.method = RequestMethod(tests[Len(results) + 1].func, s)

C2_Witness ==
    /\ Compliance /\ Len(results) = NumTests
    /\ ~results[3].passed /\ results[4].passed /\ results[9].passed

\* C3: the line that send_message returns to a caller carries the id of
\* that caller's request.
C3_ResponseMatchesRequest == lastRet[1] = lastRet[2]

\* C4: a send never waits for ever: on both transports a call in flight
\* ends (with a response, or with a failure once the deadline has passed).
C4_SendEventuallyEnds == (call # NoCall) ~> (call = NoCall)

\* C5: disconnect() is invoked exactly once in every run of
\* run_all_validations: never while checks run, not before the last check
\* has produced its result, and before the report is assembled.
C5_DisconnectOnce ==
    Compliance =>
        /\ disconnectCalls <= 1
        /\ pc \in {"idle", "running", "finally"} => disconnectCalls = 0
        /\ pc \in {"reporting", "done", "failed"} => disconnectCalls = 1
        /\ report # NoReport => disconnectCalls = 1
        /\ disconnectCalls = 1 /\ Connected /\ ~Cancelled
              => Len(results) = NumTests

C5_Witness ==
    /\ Compliance /\ pc = "done" /\ disconnectCalls = 1
    /\ report.failed_tests >= 1 /\ childState = "terminated"

\* C6 (as claimed): the requests handed to one child carry the ids 1, 2,
\* 3, ... in this order.
C6_IdsStartAtOne ==
    \A i \in 1..Len(sent) :
        sent[i].id = Cardinality({j \in 1..i : sent[j].child = sent[i].child})

\* C6 (amended): ids are positive and each request's id is one more than
\* the id of the request before it, so no id is used twice, failed and
\* timed-out sends included; the first id of a session is one more than
\* message_id at the time its child was spawned, which is 1 in a run of
\* MCPProtocolValidator and in an MCPClient whose first operation is
\* connect().
C6_IdsConsecutive ==
    /\ \A i \in 1..Len(sent) : sent[i].id >= 1
    /\ \A i \in 1..Len(sent) - 1 : sent[i + 1].id = sent[i].id + 1
    /\ \A i, j \in 1..Len(sent) : sent[i].id = sent[j].id => i = j
    /\ \A i \in 1..Len(sent) :
          (\A j \in 1..i - 1 : sent[j].child # sent[i].child) /\ sent[i].child = process
              => sent[i].id = idAtSpawn + 1
    /\ Compliance /\ sent # <<>> => sent[1].id = 1
    /\ Len(sent) > 0 => message_id = sent[Len(sent)].id

C6_Witness ==
    /\ Compliance /\ Len(sent) >= 4
    /\ \E i \in 1..Len(results) : results[i].details = "Response timeout"

\* C7: when connect() fails to spawn the child, no check is run, no
\* request is written, no result is appended, no report is returned, and
\* the failure of the spawn is what the caller gets.
C7_ConnectFailureTerminal ==
    Compliance /\ ~Connected /\ pc # "idle" =>
        /\ pc \in {"finally", "failed"}
        /\ excn = "FileNotFoundError"
        /\ results = <<>> /\ sent = <<>> /\ message_id = 0
        /\ report = NoReport

C7_Witness ==
    Compliance /\ ~Connected /\ pc = "failed" /\ disconnectCalls = 1

\* C8: a run that is over, and was not cancelled, has produced a report,
\* unless connect failed.
C8_RunAlwaysReports ==
    /\ Compliance /\ Connected /\ pc \in {"done", "failed"} /\ ~Cancelled
          => report # NoReport
    /\ Accuracy /\ pc \in {"done", "failed"} => report # NoReport

\* C9: run_validation holds exactly one result per test case validated so
\* far, in the order of the list and with the id of its case, whatever
\* classify calls raised; after the loop there is one per case.
C9_OneResultPerCase ==
    Accuracy =>
        /\ Len(results) = testIdx - 1
        /\ Len(results) <= Len(test_cases)
        /\ \A i \in 1..Len(results) :
              results[i].test_case_id = test_cases[i].variant_id
        /\ pc # "validating" => Len(results) = Len(test_cases)

C9_Witness ==
    /\ Accuracy /\ pc = "done" /\ Len(results) = 2
    /\ results[1].predicted_classification = "Error"
    /\ results[2].passed

C11_EofFailsTheCheck ==
    [][RecvEof =>
          /\ Len(results') = Len(results) + 1
          /\ results'[Len(results')].test_name = tests[testIdx].name
          /\ ~results'[Len(results')].passed
          /\ results'[Len(results')].details = "Server connection closed"
          /\ pc' = IF testIdx = NumTests THEN "finally" ELSE "running"]_vars

\* A line that json.loads accepts and that has neither result nor error.
NeitherResultNorError(line) == line.json /\ ~HasResult(line) /\ ~HasError(line)
BothResultAndError(line) == line.json /\ HasResult(line) /\ HasError(line)

\* send_message has returned the line it read to its caller: lastRet is
\* written at that return only, with the id of a request never used before.
Returned == lastRet' # lastRet

\* C12: a send that reads a line which is not JSON, or a JSON object with
\* neither result nor error, fails: it does not return the line.
C12_MalformedNeverReturned ==
    [][(RecvLine \/ ClientRecvLine)
          /\ (~Head(stdout).json \/ NeitherResultNorError(Head(stdout)))
          => ~Returned]_vars

\* C13: validate_jsonrpc_format goes past its checks of the initialize
\* response (and so passes: whatever its second request gives is ignored)
\* only if the response has the id of the request, jsonrpc "2.0" and exactly
\* one of result and error.
C13_FormatCheckExactlyOne ==
    [][RecvLine /\ tests[testIdx].func = "validate_jsonrpc_format" /\ step = 1
          /\ step' = 2
          => /\ Head(stdout).json
             /\ Head(stdout).id = call.id
             /\ Head(stdout).jsonrpc = "2.0"
             /\ ~NeitherResultNorError(Head(stdout))
             /\ ~BothResultAndError(Head(stdout))]_vars

\* C14: an operation of MCPClient raises, once send_message has returned a
\* response, exactly when the response has an error member.
C14_ClientFailsIffError ==
    [][ClientRecvLine /\ Head(stdout).json
          => (lastOutcome'.kind = "raise" <=> HasError(Head(stdout)))]_vars

\* The initialize of the current session has ended in a failure: it is the
\* last request written, to the current child, no send is in flight, and
\* the last outcome is a failure of a send or of an operation.
InitializeFailed ==
    /\ call = NoCall /\ sent # <<>>
    /\ sent[Len(sent)].method = "initialize"
    /\ sent[Len(sent)].child = process
    /\ lastOutcome.kind = "raise"
    /\ lastOutcome.msg \notin {"ProcessLookupError", "FileNotFoundError"}

\* C15: list_tools, call_tool, list_resources, read_resource, list_prompts
\* and get_prompt, called before connect() or after a connect() whose
\* initialize failed, raise and write nothing to the child.
C15_NoRequestBeforeInitialize ==
    [][ClientOp /\ (process = 0 \/ InitializeFailed)
          => sent' = sent /\ lastOutcome'.kind = "raise"]_vars

\* C16: no child is sent two initialize requests.
C16_InitializeOncePerChild ==
    \A i, j \in 1..Len(sent) :
        /\ sent[i].method = "initialize" /\ sent[j].method = "initialize"
        /\ sent[i].child = sent[j].child
        => i = j

\* C17: connect() on a client whose child is running and which has not been
\* disconnected raises, spawns nothing and keeps self.process.
C17_SecondConnectFailsFast ==
    [][ClientConnect /\ process # 0 /\ childState = "running"
          => /\ process' = process
             /\ sent' = sent
             /\ lastOutcome'.kind = "raise"]_vars

\* C18: disconnect() never raises, in whatever state it is called.
C18_DisconnectNeverRaises ==
    /\ excn \notin {"ProcessLookupError", "ProcessLookupError during CancelledError"}
    /\ lastOutcome.msg # "ProcessLookupError"

\* C20: the child never holds more than one request that it has not
\* answered.
C20_OneRequestInFlight == Cardinality(unanswered \cup late) <= 1

\* C19: a run of run_all_validations, example_workflow or
\* interactive_session that spawned a child and is over (completed, failed
\* inside connect(), failed in an operation, or cancelled) has invoked
\* disconnect(), and its child is not running; the orchestrator has not
\* gone on to its report before that.
C19_NoChildLeftRunning ==
    (Compliance \/ Workflow) /\ Connected /\ pc \in {"reporting", "done", "failed"}
        => /\ disconnectCalls = 1
           /\ childState \in {"terminated", "exited"}

C19_Witness ==
    /\ Workflow /\ pc = "failed" /\ excn = "CancelledError"
    /\ disconnectCalls = 1 /\ childState = "terminated"

\* ------------------------------------------------- claims on the accuracy run
\* A run of the accuracy validator before its first case: where the
\* properties of the pure functions, which no state changes, are evaluated.
AccuracyStart == Accuracy /\ testIdx = 1

\* The result of a case whose classify_variant call returned a dictionary.
Classified(i) == results[i].predicted_classification # "Error"

\* C21 (as the specification states it): a case is marked passed exactly
\* when the predicted classification is a tolerant match of the expected one
\* and the reported confidence is at least the threshold minus 0.1.
C21_PassedIffTolerantAndSlack ==
    Accuracy =>
        \A i \in 1..Len(results) :
            Classified(i) =>
                (results[i].passed <=>
                    /\ classify_prediction_accuracy(results[i].predicted_classification,
                                                    results[i].expected_classification)
                    /\ results[i].confidence_score
                           >= test_cases[i].confidence_threshold - 10)

\* Position of a label on the five-point scale.
Rank(label) == CHOOSE k \in 1..Len(classifications) : classifications[k] = label
ScaleLabels == {classifications[k] : k \in 1..Len(classifications)}
OneStepApart(X, Y) == Rank(X) - Rank(Y) \in {-1, 1}

\* C22: classification tolerance holds between a label and itself, whatever
\* the label, and between two distinct labels of the five-point scale exactly
\* when they are one ordinal step apart; it does not hold between Benign and
\* Pathogenic. A result reports a mismatch ("Expected ..., got ...") exactly
\* when its two labels are neither equal nor one step apart.
C22_ToleranceAdjacentOnly ==
    /\ AccuracyStart =>
        /\ \A X \in ScaleLabels \cup {"Unknown", "Error", "VUS"} :
                classify_prediction_accuracy(X, X)
        /\ \A X, Y \in ScaleLabels :
                X # Y => (classify_prediction_accuracy(X, Y) <=> OneStepApart(X, Y))
        /\ ~classify_prediction_accuracy("Benign", "Pathogenic")
        /\ ~classify_prediction_accuracy("Pathogenic", "Benign")
    /\ Accuracy =>
        \A i \in 1..Len(results) :
            Classified(i) =>
                (results[i].message[1] = "Expected " <=>
                    /\ results[i].predicted_classification
                           # results[i].expected_classification
                    /\ ~OneStepApart(results[i].predicted_classification,
                                     results[i].expected_classification))

C22_Witness ==
    /\ Accuracy
    /\ \E i \in 1..Len(results) :
        /\ results[i].expected_classification = "Pathogenic"
        /\ results[i].predicted_classification = "Likely Pathogenic"
        /\ results[i].message[1] # "Expected "
    /\ \E i \in 1..Len(results) :
        /\ results[i].expected_classification = "Pathogenic"
        /\ results[i].predicted_classification = "Uncertain Significance"
        /\ results[i].message[1] = "Expected "

\* Criteria codes that test cases and classification results use.
Criteria == {"PVS1", "PM2", "PP3", "BA1"}

\* C23 (as the specification states it): criteria accuracy is symmetric, so
\* the value recorded for a case is the value with the two sets exchanged.
C23_Symmetric ==
    Accuracy =>
        \A i \in 1..Len(results) :
            Classified(i) =>
                FracEq(results[i].criteria_accuracy,
                       calculate_criteria_accuracy(results[i].expected_criteria,
                                                   results[i].applied_criteria))

\* C23 (amended): criteria accuracy is symmetric when both sets are empty or
\* both are non-empty; when exactly one is empty it is 1 if that one is the
\* expected set and 0 if it is the predicted set.
C23_SymmetricUnlessOneEmpty ==
    /\ AccuracyStart =>
        \A P, E \in SUBSET Criteria :
            /\ (P = {} <=> E = {}) =>
                   FracEq(calculate_criteria_accuracy(P, E),
                          calculate_criteria_accuracy(E, P))
            /\ P # {} =>
                   /\ FracEq(calculate_criteria_accuracy(P, {}), <<1, 1>>)
                   /\ FracEq(calculate_criteria_accuracy({}, P), <<0, 1>>)
    /\ Accuracy =>
        \A i \in 1..Len(results) :
            Classified(i) /\ results[i].expected_criteria = {} =>
                FracEq(results[i].criteria_accuracy, <<1, 1>>)

C23_Witness ==
    /\ Accuracy
    /\ \E i \in 1..Len(results) :
        /\ results[i].expected_criteria = {}
        /\ results[i].applied_criteria # {}
        /\ results[i].criteria_accuracy = <<1, 1>>
        /\ calculate_criteria_accuracy(results[i].expected_criteria,
                                       results[i].applied_criteria)[1] = 0

\* C24: criteria accuracy is 1 when the expected set is empty and otherwise
\* |predicted /\ expected| / |predicted \/ expected|; it lies in [0, 1], is 1
\* for equal sets, 0 for disjoint non-empty sets and 1/3 for expected
\* {PVS1, PM2} and predicted {PVS1, PP3}; the value recorded for a case is
\* that of its applied and expected criteria.
C24_CriteriaAccuracyValue ==
    /\ AccuracyStart =>
        /\ \A P, E \in SUBSET Criteria :
            LET acc == calculate_criteria_accuracy(P, E)
            IN  /\ acc[2] > 0 /\ 0 <= acc[1] /\ acc[1] <= acc[2]
                /\ E = {} => FracEq(acc, <<1, 1>>)
                /\ E # {} =>
                       FracEq(acc, <<Cardinality(P \cap E), Cardinality(P \cup E)>>)
                /\ P = E => FracEq(acc, <<1, 1>>)
                /\ P # {} /\ E # {} /\ P \cap E = {} => FracEq(acc, <<0, 1>>)
        /\ FracEq(calculate_criteria_accuracy({"PVS1", "PP3"}, {"PVS1", "PM2"}),
                  <<1, 3>>)
    /\ Accuracy =>
        \A i \in 1..Len(results) :
            Classified(i) =>
                LET P == results[i].applied_criteria
                    E == results[i].expected_criteria
                IN  FracEq(results[i].criteria_accuracy,
                           IF E = {} THEN <<1, 1>>
                           ELSE <<Cardinality(P \cap E), Cardinality(P \cup E)>>)

C24_Witness ==
    /\ Accuracy
    /\ \E i \in 1..Len(results) :
        /\ results[i].expected_criteria = {"PVS1", "PM2"}
        /\ results[i].applied_criteria = {"PVS1", "PP3"}
        /\ results[i].criteria_accuracy = <<1, 3>>

\* ----------------------------------------------- claims on the check procedures
\* The send_message that returned last was the request `method` of this run.
LastReturnedWas(method) ==
    \E k \in 1..Len(sent) : sent[k].method = method /\ sent[k].id = lastRet[1]

\* C25: the Tool Discovery check passes only if the answer to tools/list
\* lists all four required tools and every entry has a name and a
\* description; when a required tool is missing from the list, the result is
\* passed = false and its message names a missing tool.
C25_ToolDiscoveryNeedsAllFour ==
    [][ (RecvLine /\ tests[testIdx].func = "validate_tool_discovery"
                  /\ Head(stdout).json)
        => LET line == Head(stdout)
               tools == ToolEntries(line.result)
               names == {tools[i].name : i \in 1..Len(tools)}
               absent == {expected_tools[k] : k \in 1..Len(expected_tools)} \ names
               rec == results'[Len(results')]
           IN  /\ Len(results') = Len(results) + 1
               /\ rec.test_name = "Tool Discovery"
               /\ rec.passed =>
                    /\ absent = {}
                    /\ \A i \in 1..Len(tools) : tools[i].description
                    /\ ~HasError(line)
               /\ (~HasError(line) /\ absent # {}
                     /\ line.result \in {"empty"} \cup ToolsListShapes) =>
                    /\ ~rec.passed
                    /\ rec.details \in {MissingToolMessage(t) : t \in absent}
                    /\ rec.message = <<"Test failed: ", rec.details>>
      ]_vars

C25_Witness ==
    /\ Compliance /\ Len(results) >= 3
    /\ results[3].test_name = "Tool Discovery"
    /\ ~results[3].passed
    /\ results[3].message = <<"Test failed: ", "Missing expected tool: generate_report">>

\* C26 (as the specification states it): when the call of the tool that does
\* not exist is answered with error -32601, the Tool Invocation result is
\* passed = false.
C26_NonexistentToolFails ==
    (/\ Compliance /\ Len(results) >= 4
     /\ LastReturnedWas("tools/call nonexistent_tool")
     /\ lastRet[3] = METHOD_NOT_FOUND)
        => ~results[4].passed

\* C26 (amended): the Tool Invocation check passes when the call of the tool
\* that does not exist is answered with an error object that has a code and
\* a message; it fails, with the message "Invalid tool call should return
\* error" or "Error response missing required fields", when the answer has
\* no such object. In the accuracy run, a classify_variant call that the client ends
\* with "Tool call failed" gives a result with passed = false whose message
\* carries the text of the error, code -32601 included.
C26_ErrorAnswerPassesTheCheck ==
    /\ (/\ Compliance /\ Len(results) >= 4
        /\ LastReturnedWas("tools/call nonexistent_tool"))
          => /\ results[4].test_name = "Tool Invocation"
             /\ results[4].passed <=> lastRet[3] \notin {0, IncompleteError}
             /\ ~results[4].passed =>
                   results[4].details \in
                       {"Invalid tool call should return error",
                        "Error response missing required fields"}
    /\ (/\ Accuracy /\ Len(results) >= 1
        /\ lastOutcome = Raise(ToolCallFailed))
          => /\ ~results[Len(results)].passed
             /\ results[Len(results)].message
                    = <<"Classification failed: ", ToolCallFailed>>

C26_Witness ==
    /\ Compliance /\ Len(results) >= 4
    /\ LastReturnedWas("tools/call nonexistent_tool")
    /\ lastRet[3] = METHOD_NOT_FOUND
    /\ results[4].passed

\* C27: when the unknown method or the tool call without arguments is
\* answered without an error object, the Error Handling check fails; when
\* both are answered with an error object it passes, whatever the codes; it
\* passes in no other way.
C27_ErrorCodesAreNotChecked ==
    Compliance /\ Len(results) >= 8 =>
        /\ results[8].test_name = "Error Handling"
        /\ LastReturnedWas("tools/call no arguments") =>
              (results[8].passed <=> lastRet[3] # 0)
        /\ (LastReturnedWas("invalid/method") /\ lastRet[3] = 0) =>
              results[8].details = "Invalid method should return error"
        /\ (Len(results) = 8 /\ results[8].passed) =>
              LastReturnedWas("tools/call no arguments")

C27_Witness ==
    /\ Compliance /\ Len(results) = 8
    /\ LastReturnedWas("tools/call no arguments")
    /\ lastRet[3] = METHOD_NOT_FOUND
    /\ results[8].passed

\* C28: when logging/setLevel is answered with error -32601, the Logging
\* Support check is recorded with passed = true.
C28_LoggingToleratesMethodNotFound ==
    (/\ Compliance /\ Len(results) = 9
     /\ LastReturnedWas("logging/setLevel")
     /\ lastRet[3] = METHOD_NOT_FOUND)
        => /\ results[9].test_name = "Logging Support"
           /\ results[9].passed
           /\ results[9].message = <<"Test passed">>

C28_Witness ==
    /\ Compliance /\ Len(results) = 9
    /\ LastReturnedWas("logging/setLevel")
    /\ lastRet[3] = METHOD_NOT_FOUND
    /\ results[9].passed
    /\ \A i \in 1..8 : results[i].passed

\* ------------------------------------------------ claims on the ClinicalReport
ClinicalReportReturned == Accuracy /\ report.kind = "ClinicalReport"

\* C29 (as the specification states it): the breakdown by expected category
\* of a ClinicalReport has an entry for each of the five categories, whatever
\* the batch.
C29_AllFiveCategories ==
    ClinicalReportReturned =>
        \A k \in 1..Len(classifications) :
            classifications[k] \in DOMAIN report.results_by_classification

\* The rules of the recommendations, read from the aggregates of a report.
OverallAccuracyLow == FracLess(report.classification_accuracy, <<95, 100>>)
CriteriaAccuracyLow == FracLess(report.criteria_accuracy, <<80, 100>>)
LatencyHigh == FracLess(<<5, 1>>, report.average_response_time)
SomeCategoryLow ==
    \E cls \in DOMAIN report.results_by_classification :
        LET m == report.results_by_classification[cls]
        IN  FracLess(<<m.correct, m.total>>, <<90, 100>>)
SomeRuleFired ==
    OverallAccuracyLow \/ CriteriaAccuracyLow \/ LatencyHigh \/ SomeCategoryLow

\* C30: the recommendations of a ClinicalReport are never empty; they are the
\* single affirmative statement exactly when no rule fired (overall accuracy
\* under 0.95, criteria accuracy under 0.80, mean latency over 5 s, a
\* category's accuracy under 0.90); the affirmative statement never appears
\* together with an advisory.
C30_RecommendationsNeverEmpty ==
    ClinicalReportReturned =>
        LET recs == report.recommendations
        IN  /\ Len(recs) >= 1
            /\ recs = <<AllTargetsMet>> <=> ~SomeRuleFired
            /\ (\E k \in 1..Len(recs) : recs[k] = AllTargetsMet) => Len(recs) = 1
            /\ OverallAccuracyLow <=>
                  \E k \in 1..Len(recs) : recs[k] = "Classification accuracy below 95%"
            /\ LatencyHigh <=>
                  \E k \in 1..Len(recs) : recs[k] = "Average response time > 5 seconds"

C30_Witness ==
    /\ ClinicalReportReturned
    /\ report.total_variants = 2
    /\ report.recommendations = <<AllTargetsMet>>
    /\ ~SomeRuleFired

ToolInvocationReads(s) ==
    /\ prog = "compliance" /\ call # NoCall /\ stdout # <<>>
    /\ tests[testIdx].func = "validate_tool_invocation" /\ step = s

\* C32: the Tool Invocation check passes exactly when the validate_hgvs call
\* is answered with a non-null object result and no error, and the call of
\* 'nonexistent_tool' is answered with an error object that has both a code
\* and a message.
C32_ToolInvocationPassesIff ==
    [][ /\ (RecvLine /\ ToolInvocationReads(1)) =>
              LET line == Head(stdout)
                  known_good == /\ line.json /\ ~HasError(line)
                                /\ line.result \notin {"absent", "null", "bad"}
              IN  IF known_good
                  THEN step' = 2 /\ results' = results
                  ELSE /\ Len(results') = Len(results) + 1
                       /\ ~results'[Len(results')].passed
        /\ (RecvLine /\ ToolInvocationReads(2)) =>
              LET line == Head(stdout)
                  full_error == /\ line.json
                                /\ line.error \in {METHOD_NOT_FOUND, INVALID_PARAMS}
              IN  /\ Len(results') = Len(results) + 1
                  /\ results'[Len(results')].test_name = "Tool Invocation"
                  /\ results'[Len(results')].passed <=> full_error
        /\ (/\ prog = "compliance" /\ Len(results') = Len(results) + 1
            /\ results'[Len(results')].test_name = "Tool Invocation"
            /\ results'[Len(results')].passed)
              => ToolInvocationReads(2)
      ]_vars

C32_Witness ==
    /\ Compliance /\ Len(results) >= 4
    /\ LastReturnedWas("tools/call nonexistent_tool")
    /\ lastRet[3] = IncompleteError
    /\ results[4].details = "Error response missing required fields"

\* C33: in a ClinicalReport the overall pass rate is the number of passed
\* outcomes divided by the number of outcomes, and the high-confidence pass
\* rate is the number of passed outcomes among those with confidence >= 0.9
\* divided by their number, 0 when there is none; an errored case has
\* confidence 0 and counts in neither part of the high-confidence rate.
C33_AggregateRates ==
    ClinicalReportReturned =>
        LET rs == report.detailed_results
            high == {i \in 1..Len(rs) :
                        Classified(i) /\ rs[i].confidence_score >= 90}
        IN  /\ rs = results /\ Len(rs) > 0
            /\ FracEq(report.classification_accuracy,
                      <<Cardinality({i \in 1..Len(rs) : rs[i].passed}), Len(rs)>>)
            /\ \A i \in 1..Len(rs) : ~Classified(i) => rs[i].confidence_score = 0
            /\ high = {} => report.high_confidence_accuracy[1] = 0
            /\ high # {} =>
                  FracEq(report.high_confidence_accuracy,
                         <<Cardinality({i \in high : rs[i].passed}), Cardinality(high)>>)

C33_Witness ==
    /\ ClinicalReportReturned
    /\ \E i \in 1..Len(results) : ~Classified(i)
    /\ report.classification_accuracy = <<1, 2>>
    /\ report.high_confidence_accuracy = <<1, 1>>

\* C34: in every ComplianceReport passed_tests + failed_tests = total_tests =
\* the length of the result list, the score is 100 * passed_tests /
\* total_tests and lies between 0 and 100, and the status is COMPLIANT
\* exactly when failed_tests = 0, that is when every result has passed.
C34_ReportCountsAgree ==
    prog = "compliance" /\ report.kind = "ComplianceReport" =>
        /\ report.results = results
        /\ report.total_tests = Len(results)
        /\ report.passed_tests + report.failed_tests = report.total_tests
        /\ report.passed_tests = Cardinality({i \in 1..Len(results) : results[i].passed})
        /\ report.total_tests > 0
        /\ FracEq(report.compliance_score,
                  <<100 * report.passed_tests, report.total_tests>>)
        /\ ~FracLess(report.compliance_score, <<0, 1>>)
        /\ ~FracLess(<<100, 1>>, report.compliance_score)
        /\ report.overall_status \in {"COMPLIANT", "NON_COMPLIANT"}
        /\ report.overall_status = "COMPLIANT" <=> report.failed_tests = 0
        /\ report.failed_tests = 0 <=> \A i \in 1..Len(results) : results[i].passed

C34_Witness ==
    /\ Compliance /\ report.kind = "ComplianceReport"
    /\ report.total_tests = NumTests
    /\ report.passed_tests = 8 /\ report.failed_tests = 1
    /\ report.overall_status = "NON_COMPLIANT"

\* C35: the Logging Support check is recorded with passed = true whatever
\* the server does (an error with any code, no answer in time, a closed
\* stream, a line that is not JSON), so optional_failures is empty in every
\* report.
C35_LoggingNeverFails ==
    prog = "compliance" =>
        /\ \A i \in 1..Len(results) :
              results[i].test_name = "Logging Support" =>
                  results[i].passed /\ results[i].message = <<"Test passed">>
        /\ report.kind = "ComplianceReport" => report.optional_failures = {}

C35_Witness ==
    /\ Compliance /\ report.kind = "ComplianceReport"
    /\ Len(results) = NumTests
    /\ \E k \in 1..Len(sent) :
          sent[k].method = "logging/setLevel" /\ lastRet[1] # sent[k].id
    /\ results[NumTests].test_name = "Logging Support"
    /\ results[NumTests].passed
    /\ report.optional_failures = {}

\* C36 (as the specification states it): the result of a case whose
\* classification call returned has the message "Classification accurate"
\* exactly when it is passed; a passed result carries neither a "Low
\* confidence" nor an "Expected ..., got ..." message.
C36_MessageAgreesWithPassed ==
    Accuracy =>
        \A i \in 1..Len(results) :
            Classified(i) =>
                /\ results[i].message = <<"Classification accurate">>
                       <=> results[i].passed
                /\ results[i].passed =>
                       results[i].message[1] \notin {"Low confidence: ", "Expected "}

\* The requests written to the child of the current run, in order.
SentThisRun == SelectSeq(sent, LAMBDA s : s.child = process)

\* C37 (as the specification states it): when run_all_validations is called
\* a second time on the same MCPProtocolValidator, the report of the second
\* run counts exactly the nine checks of that run, its result list holds only
\* the results of that run, and the first request of that run has id 1.
C37_SecondRunStartsAfresh ==
    prog = "compliance" /\ runs = 2 =>
        /\ Len(SentThisRun) > 0 /\ pc # "idle" => SentThisRun[1].id = 1
        /\ report.kind = "ComplianceReport" =>
               /\ report.total_tests = NumTests
               /\ Len(report.results) = NumTests

\* C38 (as the specification states it): once disconnect() has completed on
\* an MCPClient, and until it is connected again, every later operation
\* fails with "Not connected to MCP server" and writes nothing to the stdin
\* of the terminated child.
C38_AfterDisconnectNotConnected ==
    [][(ClientOp /\ prog = "client" /\ childState = "terminated")
           => /\ sent' = sent
              /\ lastOutcome' = Raise("Not connected to MCP server")]_vars

\* C39 (as the specification states it): example_workflow raises no error of
\* its own: when it has connected and every call is answered by the server
\* as a conforming server answers, it ends normally, whether validate_hgvs
\* reports the notation valid or not valid.
C39_WorkflowCompletesOnBothBranches ==
    /\ ExampleWorkflow => excn # "UnboundLocalError"
    /\ ExampleWorkflow /\ Connected /\ deviations = 0 /\ pc \in {"done", "failed"}
           => pc = "done" /\ excn = "none"

====
